---- MODULE Spec2Model ----
(***************************************************************************)
(* Model of sphinx-tr.py: the asyncio pipeline that discovers .po          *)
(* catalogs, translates their untranslated entries through the scraped web *)
(* backend and rewrites each catalog through a temporary sibling file.     *)
(*                                                                         *)
(* Strings are sequences: a path is a sequence of tokens (directory and    *)
(* file name parts, "/" and "."), a message text is a sequence of          *)
(* characters.  The empty string is << >>.                                 *)
(***************************************************************************)
EXTENDS Naturals, Sequences, FiniteSets

\* ------------------------------------------------------------------------
\* Bounds of the model

\* longest target_languages tuple passed to translate()
MaxLangs == 2
\* most entries in a catalog of the initial file system
MaxEntries == 2
\* number of catalog files of the tree used by the no-failure runs
LiveFiles == 5
\* most --target-language options on a command line
MaxOptions == 2
\* most characters of a text the backend answers with
MaxText == 4
\* how often the command is run on one file system
MaxRuns == 2

\* ------------------------------------------------------------------------
\* Program constants

\* range(4): the number of translate_files tasks created by translate()
NumWorkers == 4
\* response.status of a successful request
StatusOK == 200

\* random.randint(100, 1000): the bounds of the delay, in milliseconds
MinDelay == 100
MaxDelay == 1000

Workers == 1..NumWorkers

\* ------------------------------------------------------------------------
\* Strings and paths

Sep == "/"
Dot == "."

Range(s) == {s[i] : i \in 1..Len(s)}

\* str.rfind for a single token: the last index holding c, 0 when absent
RFind(s, c) ==
    IF \E i \in 1..Len(s) : s[i] = c
    THEN CHOOSE i \in 1..Len(s) : s[i] = c /\ \A j \in (i+1)..Len(s) : s[j] # c
    ELSE 0

\* os.path.join(a, b) for a relative b
PathJoin(a, b) == a \o <<Sep>> \o b

\* os.path.splitext: the extension starts at the last dot of the last path
\* component, unless that component has only leading dots before it
SplitExt(p) ==
    LET sepIndex == RFind(p, Sep)
        dotIndex == RFind(p, Dot)
    IN  IF dotIndex > sepIndex /\ \E i \in (sepIndex+1)..(dotIndex-1) : p[i] # Dot
        THEN <<SubSeq(p, 1, dotIndex-1), SubSeq(p, dotIndex, Len(p))>>
        ELSE <<p, << >> >>

\* os.path.dirname
DirName(p) == SubSeq(p, 1, RFind(p, Sep) - 1)

IsPrefix(a, b) == Len(a) <= Len(b) /\ SubSeq(b, 1, Len(a)) = a

\* the ".po" of line 117 and the ".tmp" of line 142
PoExt == <<Dot, "po">>
TmpSuffix == <<Dot, "tmp">>
TmpOf(po_file) == po_file \o TmpSuffix

locale_dir == <<"locale">>

\* po_dir of line 110 for the directory dir
PoDirIn(dir, lang) == PathJoin(PathJoin(dir, <<lang>>), <<"LC_MESSAGES">>)

PoDir(lang) == PoDirIn(locale_dir, lang)

\* ------------------------------------------------------------------------
\* Catalogs, message texts and backend documents

Empty == << >>

\* msg.id values: the header / an empty source string, and a source string
IdHello == <<"H", "i">>
\* msg.string values already stored in a catalog
StrOld == <<"o", "l", "d">>

Msg(id, string) == [id |-> id, string |-> string]

EntryKinds == {Msg(Empty, Empty), Msg(IdHello, Empty), Msg(IdHello, StrOld)}

RECURSIVE SeqsUpTo(_, _)
SeqsUpTo(S, n) ==
    IF n = 0 THEN {<< >>}
    ELSE LET shorter == SeqsUpTo(S, n - 1)
         IN  shorter \cup {Append(s, x) : s \in {t \in shorter : Len(t) = n - 1}, x \in S}

\* str.replace(old, new): every non-overlapping occurrence, left to right;
\* ReplaceFrom is the scan from position i on
RECURSIVE ReplaceFrom(_, _, _, _)
ReplaceFrom(s, old, new, i) ==
    IF i > Len(s) THEN << >>
    ELSE IF i + Len(old) - 1 <= Len(s) /\ SubSeq(s, i, i + Len(old) - 1) = old
         THEN new \o ReplaceFrom(s, old, new, i + Len(old))
         ELSE <<s[i]>> \o ReplaceFrom(s, old, new, i + 1)

StrReplace(s, old, new) ==
    CHOOSE r \in {ReplaceFrom(v, old, new, 1) : v \in {s}} : TRUE

\* the backquote character of lines 81-83
BackTick == "bq"

\* a chain that takes every "+" out of the text
CorrectionsPlus == << << <<"+">>, << >> >> >>

\* the chain of replacements of lines 70-83, in order
Corrections ==
    << << <<" ", "+", " ">>, <<" ">> >>,
       << <<"C", " ", "#">>, <<"C", "#">> >>,
       << <<"C", " ", "+", "+">>, <<"C", "+", "+">> >>,
       << <<"+", "-", "+">>, <<"-">> >>,
       << <<" ", ":", ":", " ">>, <<":", ":">> >>,
       << <<"!", " ", "=">>, <<"!", "=">> >>,
       << <<">", " ", "=">>, <<">", "=">> >>,
       << <<" ", "+">>, << >> >>,
       << <<" ", "/", " ">>, <<"/">> >>,
       << <<".", ".", "/", " ">>, <<".", ".", "/">> >>,
       << <<" ", "/", "/", " ">>, <<"/", "/">> >>,
       << <<":", " ", "d", "o", "c", ":", " ", BackTick>>, <<":", "d", "o", "c", ":", BackTick>> >>,
       << <<":", " ", "r", "e", "f", ":", " ", BackTick>>, <<":", "r", "e", "f", ":", BackTick>> >>,
       << <<BackTick, " ", "_">>, <<BackTick, "_">> >> >>

RECURSIVE ApplyCorrections(_, _)
ApplyCorrections(s, k) ==
    IF k > Len(Corrections) THEN s
    ELSE ApplyCorrections(StrReplace(s, Corrections[k][1], Corrections[k][2]), k + 1)

\* A backend document is modelled by the list of text nodes the xpath of
\* line 66 selects in it; parse_translated_entry takes the last one.
parse_translated_entry(doc) ==
    IF doc = << >> THEN Empty
    ELSE ApplyCorrections(doc[Len(doc)], 1)

\* documents the backend can answer with: no matching element, and two text
\* nodes of which the last holds a mangled token
Docs ==
    { << >>,
      << <<"x">>, <<"C", " ", "#">> >> }

\* the characters of the texts the backend answers with, and the texts
TextChars == {" ", "+", "C", "#", "/", ".", ":"}
Texts == SeqsUpTo(TextChars, MaxText)

\* ------------------------------------------------------------------------
\* The file system

\* what a path holds: nothing, a file opened for writing whose content has not
\* reached it yet, a complete serialized catalog, or a file that is no catalog
Absent == [kind |-> "absent", cat |-> << >>]
Truncated == [kind |-> "partial", cat |-> << >>]
File(cat) == [kind |-> "catalog", cat |-> cat]
OtherFile == [kind |-> "other", cat |-> << >>]

LangDirs == <<"de", "fr">>
FileNames == <<"a", "b", "c", "d", "e", "f", "g", "h">>

PoPath(lang, name) == PathJoin(PoDir(lang), <<name>> \o PoExt)
MoPath(lang, name) == PathJoin(PoDir(lang), <<name, Dot, "mo">>)

\* a fixed order of every path of the model: the order in which os.walk
\* lists the files that exist
RECURSIVE PathsFrom(_, _)
PathsFrom(l, n) ==
    IF l > Len(LangDirs) THEN << >>
    ELSE IF n > Len(FileNames) THEN PathsFrom(l + 1, 1)
    ELSE << PoPath(LangDirs[l], FileNames[n]),
            TmpOf(PoPath(LangDirs[l], FileNames[n])),
            MoPath(LangDirs[l], FileNames[n]) >> \o PathsFrom(l, n + 1)

\* a catalog in a subdirectory of the first language directory, and a file
\* whose whole name is ".po"
SubPath(lang, name) == PathJoin(PathJoin(PoDir(lang), <<"sub">>), <<name>> \o PoExt)
DotPath(lang) == PathJoin(PoDir(lang), PoExt)
NestedPaths ==
    << DotPath(LangDirs[1]), SubPath(LangDirs[1], FileNames[3]),
       TmpOf(SubPath(LangDirs[1], FileNames[3])) >>

PathOrder == PathsFrom(1, 1) \o NestedPaths

\* catalogs of the initial file system
Catalogs == SeqsUpTo(EntryKinds, MaxEntries)

\* the language codes a run is started with; "xx" has no directory
LangCodes == {"de", "fr", "xx"}

\* the tree of the general runs: one catalog per language directory, and a
\* compiled catalog next to the first
TreePaths ==
    { PoPath("de", "a"), TmpOf(PoPath("de", "a")), MoPath("de", "a"),
      PoPath("fr", "a"), TmpOf(PoPath("fr", "a")) }

Tree(c1, c2) ==
    [p \in TreePaths |->
        IF p = PoPath("de", "a") THEN File(c1)
        ELSE IF p = PoPath("fr", "a") THEN File(c2)
        ELSE IF p = MoPath("de", "a") THEN OtherFile
        ELSE Absent]

\* the tree of the no-failure runs: LiveFiles catalogs in one language
\* directory, each with the header and one untranslated entry
LiveNames == {FileNames[n] : n \in 1..LiveFiles}
LivePaths ==
    {PoPath("de", n) : n \in LiveNames} \cup {TmpOf(PoPath("de", n)) : n \in LiveNames}
        \cup {MoPath("de", "a")}
LiveCatalog == <<Msg(Empty, Empty), Msg(IdHello, Empty)>>
LiveTree ==
    [p \in LivePaths |->
        IF p = MoPath("de", "a") THEN OtherFile
        ELSE IF p \in {PoPath("de", n) : n \in LiveNames} THEN File(LiveCatalog)
        ELSE Absent]

\* the tree of the runs in which only loads fail: the same files, of which the
\* first has an untranslated entry and the others are fully translated
CleanCatalog == <<Msg(Empty, Empty), Msg(IdHello, StrOld)>>
ReadTree ==
    [p \in LivePaths |->
        IF p = PoPath("de", FileNames[1]) THEN File(LiveCatalog)
        ELSE IF LiveTree[p].kind = "catalog" THEN File(CleanCatalog)
        ELSE LiveTree[p]]

\* the tree of the runs started from the command line: a catalog with an
\* untranslated entry, a compiled catalog, a temporary file an interrupted
\* earlier run left behind, a file named ".po", and a translated catalog in a
\* subdirectory
MainPaths ==
    { PoPath("de", "a"), TmpOf(PoPath("de", "a")), MoPath("de", "a"),
      TmpOf(PoPath("de", "b")), DotPath("de"),
      SubPath("de", "c"), TmpOf(SubPath("de", "c")) }
MainTree ==
    [p \in MainPaths |->
        IF p = PoPath("de", "a") THEN File(LiveCatalog)
        ELSE IF p = SubPath("de", "c") THEN File(CleanCatalog)
        ELSE IF p = TmpOf(PoPath("de", "b")) THEN Truncated
        ELSE IF p \in {MoPath("de", "a"), DotPath("de")} THEN OtherFile
        ELSE Absent]

\* LanguagesType.convert: value.split(','), the fields between the commas; a
\* field is one token, or "" when nothing stands between two commas
RECURSIVE convert(_)
convert(value) ==
    LET Field(v) == IF v = << >> THEN "" ELSE v[1]
        comma == IF \E i \in 1..Len(value) : value[i] = ","
                 THEN CHOOSE i \in 1..Len(value) :
                         value[i] = "," /\ \A j \in 1..(i-1) : value[j] # ","
                 ELSE 0
    IN  IF comma = 0 THEN <<Field(value)>>
        ELSE <<Field(SubSeq(value, 1, comma - 1))>>
                 \o convert(SubSeq(value, comma + 1, Len(value)))

\* line 227: sum(target_language, ()), the tuples of the options in a row
RECURSIVE target_languages(_)
target_languages(target_language) ==
    IF target_language = << >> THEN << >>
    ELSE convert(Head(target_language)) \o target_languages(Tail(target_language))

\* values of a --target-language option
OptionValues == { <<"de">>, <<"xx">>, <<"de", ",", "xx">>, <<"de", ",", "de">> }

\* a locale_dirs setting that names a directory that does not exist
NoDir == <<"nowhere">>

\* samples of random.randint(MinDelay, MaxDelay): the least and the greatest
DelaySamples == {MinDelay, MaxDelay}

\* ------------------------------------------------------------------------
\* State

VARIABLES
    fs,               \* path -> what the path holds
    fs0,              \* the file system when the run started
    backend,          \* the documents the backend of this run answers with
    languages,        \* target_languages, the tuple passed to translate()
    root,             \* locale_dir, the directory passed to translate(), or None
    run,              \* how often the command was run on this file system
    delays,           \* the values random.randint() returns in this run
    prodpc, li, listing,  \* get_po_files: position, language index, files left of the walk
    q,                \* asyncio.Queue: the items put and not yet got
    unfinished,       \* q._unfinished_tasks
    mainpc,           \* translate(): "gather", "join", "returned"
    pc,               \* translate_files, per worker: position
    job,              \* per worker: the item of line 122
    cat_po,           \* per worker: the catalog in memory
    loaded,           \* per worker: the catalog as load_po returned it
    need_write,       \* per worker
    idx,              \* per worker: position of msg in cat_po
    translate_result, \* per worker: the document of line 133
    exc,              \* per worker: the exception being raised
    failed_step,      \* per worker: the step that raised first
    fd,               \* per worker: the path the file opened by dump_po is linked at
    put,              \* the items q.put() was called with, in order
    taken,            \* per item put: how often q.get() returned it
    marked,           \* the items q.task_done() was called for
    requests,         \* <<item, entry>> pairs a backend request was sent for
    sleeps,           \* <<item, entry, d>>: a sleep of d ms ended before the request
    wrote             \* <<item, "tmp">>, <<item, "po">>: the files written for an item

vars == <<fs, fs0, backend, languages, root, run, delays, prodpc, li, listing, q, unfinished, mainpc, pc, job,
          cat_po, loaded, need_write, idx, translate_result, exc, failed_step, fd,
          put, taken, marked, requests, sleeps, wrote>>

\* what a run is started with
envVars == <<backend, languages, root, run, delays>>
producerVars == <<prodpc, li, listing>>
workerVars == <<pc, job, cat_po, loaded, need_write, idx, translate_result, exc,
                failed_step, fd>>

\* locale_dir when no conf.py with a locale_dirs setting was found (line 214)
NoneValue == <<"None">>

NoJob == [k |-> 0, lang |-> "", po_file |-> << >>]
NoFd == << >>
Unlinked == <<"unlinked">>

\* the state of a first run apart from the positions of main and producer
InitState ==
    /\ fs0 = fs
    /\ run = 1
    /\ sleeps = {}
    /\ li = 1
    /\ listing = << >>
    /\ q = << >>
    /\ unfinished = 0
    /\ pc = [w \in Workers |-> "get"]
    /\ job = [w \in Workers |-> NoJob]
    /\ cat_po = [w \in Workers |-> << >>]
    /\ loaded = [w \in Workers |-> << >>]
    /\ need_write = [w \in Workers |-> FALSE]
    /\ idx = [w \in Workers |-> 0]
    /\ translate_result = [w \in Workers |-> << >>]
    /\ exc = [w \in Workers |-> "none"]
    /\ failed_step = [w \in Workers |-> "none"]
    /\ fd = [w \in Workers |-> NoFd]
    /\ put = << >>
    /\ taken = << >>
    /\ marked = {}
    /\ requests = {}
    /\ wrote = {}

\* translate() has created the queue and the five tasks (lines 162-165)
InitRun ==
    /\ InitState
    /\ prodpc = "walk"
    /\ mainpc = "gather"

Init ==
    /\ languages \in SeqsUpTo(LangCodes, MaxLangs) \ {<< >>}
    /\ \E c \in Catalogs : fs = Tree(c, c)
    /\ backend = Docs
    /\ root = locale_dir
    /\ delays = {MinDelay}
    /\ InitRun

InitLive ==
    /\ languages = <<"de">>
    /\ fs = LiveTree
    /\ backend = {doc \in Docs : doc # << >>}
    /\ root = locale_dir
    /\ delays = {MinDelay}
    /\ InitRun

InitRead ==
    /\ languages = <<"de">>
    /\ fs = ReadTree
    /\ backend = {doc \in Docs : doc # << >>}
    /\ root = locale_dir
    /\ delays = {MinDelay}
    /\ InitRun

\* a run on one catalog with one untranslated entry, whose backend answers with
\* a document of one text node
InitParse ==
    /\ languages = <<"de">>
    /\ fs = Tree(<<Msg(IdHello, Empty)>>, <<Msg(IdHello, Empty)>>)
    /\ \E text \in Texts : backend = {<<text>>}
    /\ root = locale_dir
    /\ delays = {MinDelay}
    /\ InitRun

\* the command line is parsed: main() has not run yet, no task exists
InitMain ==
    /\ \E target_language \in SeqsUpTo(OptionValues, MaxOptions) :
          /\ Len(target_languages(target_language)) <= MaxLangs
          /\ languages = target_languages(target_language)
    /\ root \in {NoneValue, NoDir, locale_dir}
    /\ fs = MainTree
    /\ backend \in {Docs, {doc \in Docs : doc # << >>}}
    /\ delays = DelaySamples
    /\ InitState
    /\ prodpc = "none"
    /\ mainpc = "main"

\* ------------------------------------------------------------------------
\* get_po_files, the producer task

Exists(p) == p \in DOMAIN fs /\ fs[p].kind # "absent"

\* a walk that lists the files of po_dir itself and enters no subdirectory
WalkFilesFlat(po_dir) ==
    LET Under(p) == Exists(p) /\ DirName(p) = po_dir
        found == SelectSeq(PathOrder, Under)
    IN  [n \in 1..Len(found) |->
            <<DirName(found[n]), SubSeq(found[n], RFind(found[n], Sep) + 1, Len(found[n]))>>]

\* os.walk(po_dir): the <<dirpath, filename>> pairs of the files under po_dir
WalkFiles(po_dir) ==
    LET Under(p) == Exists(p) /\ IsPrefix(po_dir \o <<Sep>>, p)
        found == SelectSeq(PathOrder, Under)
    IN  [n \in 1..Len(found) |->
            <<DirName(found[n]), SubSeq(found[n], RFind(found[n], Sep) + 1, Len(found[n]))>>]

\* the loops of lines 109 and 112-113 move on: the next file of this walk, or
\* the next language, or the end of the task
ProducerAdvance(rest) ==
    /\ listing' = rest
    /\ IF rest # << >> THEN prodpc' = "iter" /\ li' = li
       ELSE /\ li' = li + 1
            /\ prodpc' = IF li + 1 <= Len(languages) THEN "walk" ELSE "done"

\* line 110-112: os.walk lists the directory of the next language
ProducerWalk ==
    /\ prodpc = "walk"
    /\ root # NoneValue
    /\ ProducerAdvance(WalkFiles(PoDirIn(root, languages[li])))
    /\ UNCHANGED <<fs, fs0, envVars, q, unfinished, mainpc, workerVars, put, taken,
                   marked, requests, sleeps, wrote>>

\* a get_po_files that puts every file that has an extension
ProducerPutAnyExt ==
    /\ prodpc = "iter"
    /\ LET po_file == PathJoin(Head(listing)[1], Head(listing)[2])
       IN  /\ SplitExt(po_file)[2] # << >>
           /\ q' = Append(q, [k |-> Len(put) + 1, lang |-> languages[li],
                              po_file |-> po_file])
           /\ put' = Append(put, [lang |-> languages[li], po_file |-> po_file])
    /\ unfinished' = unfinished + 1
    /\ taken' = Append(taken, 0)
    /\ ProducerAdvance(Tail(listing))
    /\ UNCHANGED <<fs, fs0, envVars, mainpc, workerVars, marked, requests, sleeps,
                   wrote>>

\* a get_po_files that puts a path only the first time it meets it
ProducerPutOnce ==
    /\ prodpc = "iter"
    /\ LET po_file == PathJoin(Head(listing)[1], Head(listing)[2])
           seen == \E k \in 1..Len(put) : put[k].po_file = po_file
       IN  /\ SplitExt(po_file)[2] = PoExt
           /\ q' = IF seen THEN q
                   ELSE Append(q, [k |-> Len(put) + 1, lang |-> languages[li],
                                   po_file |-> po_file])
           /\ put' = IF seen THEN put
                     ELSE Append(put, [lang |-> languages[li], po_file |-> po_file])
           /\ unfinished' = IF seen THEN unfinished ELSE unfinished + 1
           /\ taken' = IF seen THEN taken ELSE Append(taken, 0)
    /\ ProducerAdvance(Tail(listing))
    /\ UNCHANGED <<fs, fs0, envVars, mainpc, workerVars, marked, requests, sleeps,
                   wrote>>

\* lines 114-118 for a file with the extension ".po": q.put((lang, po_file))
ProducerPut ==
    /\ prodpc = "iter"
    /\ LET po_file == PathJoin(Head(listing)[1], Head(listing)[2])
       IN  /\ SplitExt(po_file)[2] = PoExt
           /\ q' = Append(q, [k |-> Len(put) + 1, lang |-> languages[li],
                              po_file |-> po_file])
           /\ put' = Append(put, [lang |-> languages[li], po_file |-> po_file])
    /\ unfinished' = unfinished + 1
    /\ taken' = Append(taken, 0)
    /\ ProducerAdvance(Tail(listing))
    /\ UNCHANGED <<fs, fs0, envVars, mainpc, workerVars, marked, requests, sleeps,
                   wrote>>

\* lines 114-117 for a file with any other extension
ProducerSkip ==
    /\ prodpc = "iter"
    /\ SplitExt(PathJoin(Head(listing)[1], Head(listing)[2]))[2] # PoExt
    /\ ProducerAdvance(Tail(listing))
    /\ UNCHANGED <<fs, fs0, envVars, q, unfinished, mainpc, workerVars, put, taken,
                   marked, requests, sleeps, wrote>>

\* ------------------------------------------------------------------------
\* translate_files, the four consumer tasks

\* the skip rule of an overwrite policy: only entries without an id are passed
SkipsOverwrite(msg) == msg.id = Empty

\* line 130: the entries the loop passes over
Skips(msg) == msg.string # Empty \/ msg.id = Empty

\* the position of the first entry at or after `from` that the loop translates
NextTodo(cat, from) ==
    IF \E i \in from..Len(cat) : ~Skips(cat[i])
    THEN CHOOSE i \in from..Len(cat) :
            ~Skips(cat[i]) /\ \A j \in from..(i-1) : Skips(cat[j])
    ELSE Len(cat) + 1

\* need_write starting out set
InitialNeedWriteTrue == TRUE

\* line 125
InitialNeedWrite == FALSE

\* Lines 127-152 from entry `from` on, up to the next await: the loop passes
\* over skipped entries and suspends in translate_entry; or it ends, and the
\* catalog is handed to dump_po when need_write is set; or q.task_done() is
\* called and the task waits in q.get() again.
LoopFrom(w, catalog, ld, nw, from) ==
    \E cat \in {catalog} : \E j \in {NextTodo(cat, from)} :
    LET more == j <= Len(cat)
        back == ~more /\ ~nw
    IN  /\ pc' = [pc EXCEPT ![w] = IF more THEN "sleep" ELSE IF nw THEN "dump" ELSE "get"]
        /\ idx' = [idx EXCEPT ![w] = IF more THEN j ELSE 0]
        /\ cat_po' = [cat_po EXCEPT ![w] = IF back THEN << >> ELSE cat]
        /\ loaded' = [loaded EXCEPT ![w] = IF back THEN << >> ELSE ld]
        /\ need_write' = [need_write EXCEPT ![w] = IF back THEN FALSE ELSE nw]
        /\ job' = [job EXCEPT ![w] = IF back THEN NoJob ELSE @]
        /\ unfinished' = IF back THEN unfinished - 1 ELSE unfinished
        /\ marked' = IF back THEN marked \cup {job[w].k} ELSE marked

\* a get that leaves the item in the queue
GetPeek(w) ==
    /\ pc[w] = "get"
    /\ q # << >>
    /\ job' = [job EXCEPT ![w] = Head(q)]
    /\ q' = q
    /\ taken' = [taken EXCEPT ![Head(q).k] = @ + 1]
    /\ pc' = [pc EXCEPT ![w] = "load"]
    /\ UNCHANGED <<fs, fs0, envVars, producerVars, unfinished, mainpc, cat_po, loaded,
                   need_write, idx, translate_result, exc, failed_step, fd, put, marked,
                   requests, sleeps, wrote>>

\* line 122: q.get() returns the oldest item and removes it from the queue
Get(w) ==
    /\ pc[w] = "get"
    /\ q # << >>
    /\ job' = [job EXCEPT ![w] = Head(q)]
    /\ q' = Tail(q)
    /\ taken' = [taken EXCEPT ![Head(q).k] = @ + 1]
    /\ pc' = [pc EXCEPT ![w] = "load"]
    /\ UNCHANGED <<fs, fs0, envVars, producerVars, unfinished, mainpc, cat_po, loaded,
                   need_write, idx, translate_result, exc, failed_step, fd, put, marked,
                   requests, sleeps, wrote>>

\* line 124: load_po reads the file in an executor thread (the catalog is the
\* one of its second read); a file opened for writing by another thread is
\* read as the bytes that reached it
Load(w) ==
    /\ pc[w] = "load"
    /\ Exists(job[w].po_file)
    /\ fs[job[w].po_file].kind # "other"
    /\ LoopFrom(w, fs[job[w].po_file].cat, fs[job[w].po_file].cat, InitialNeedWrite, 1)
    /\ UNCHANGED <<fs, fs0, envVars, producerVars, q, mainpc, translate_result, exc,
                   failed_step, fd, put, taken, requests, sleeps, wrote>>

\* a task whose coroutine raises is done: nothing of lines 121-152 runs again
\* (its frame, and the locals in it, are gone)
Raise(w, step, error) ==
    /\ pc' = [pc EXCEPT ![w] = "failed"]
    /\ exc' = [exc EXCEPT ![w] = error]
    /\ failed_step' = [failed_step EXCEPT ![w] = step]
    /\ cat_po' = [cat_po EXCEPT ![w] = << >>]
    /\ loaded' = [loaded EXCEPT ![w] = << >>]
    /\ need_write' = [need_write EXCEPT ![w] = FALSE]
    /\ idx' = [idx EXCEPT ![w] = 0]
    /\ translate_result' = [translate_result EXCEPT ![w] = << >>]

\* line 124: load_po raises (missing, unreadable or malformed file)
LoadFail(w) ==
    /\ pc[w] = "load"
    /\ Raise(w, "load", "read")
    /\ UNCHANGED <<fs, fs0, envVars, producerVars, q, unfinished, mainpc, job, fd, put,
                   taken, marked, requests, sleeps, wrote>>

\* a translate_entry that sends the request at once
SendAtOnce(w) ==
    /\ pc[w] = "sleep"
    /\ pc' = [pc EXCEPT ![w] = "request"]
    /\ requests' = requests \cup {<<job[w].k, idx[w]>>}
    /\ sleeps' = sleeps \cup {<<job[w].k, idx[w], 0>>}
    /\ UNCHANGED <<fs, fs0, envVars, producerVars, q, unfinished, mainpc, job, cat_po,
                   loaded, need_write, idx, translate_result, exc, failed_step, fd, put,
                   taken, marked, wrote>>

\* lines 98-101: the delay is drawn, the sleep ends and the request is sent
Sleep(w) ==
    /\ pc[w] = "sleep"
    /\ pc' = [pc EXCEPT ![w] = "request"]
    /\ requests' = requests \cup {<<job[w].k, idx[w]>>}
    /\ \E d \in delays : sleeps' = sleeps \cup {<<job[w].k, idx[w], d>>}
    /\ UNCHANGED <<fs, fs0, envVars, producerVars, q, unfinished, mainpc, job, cat_po,
                   loaded, need_write, idx, translate_result, exc, failed_step, fd, put,
                   taken, marked, wrote>>

Statuses == {StatusOK, 500}

\* lines 101-106: the response has status 200 and its text is returned
Respond(w) ==
    /\ pc[w] = "request"
    /\ \E status \in Statuses, doc \in backend :
          /\ status = StatusOK
          /\ translate_result' = [translate_result EXCEPT ![w] = doc]
    /\ pc' = [pc EXCEPT ![w] = "parse"]
    /\ UNCHANGED <<fs, fs0, envVars, producerVars, q, unfinished, mainpc, job, cat_po,
                   loaded, need_write, idx, exc, failed_step, fd, put, taken, marked,
                   requests, sleeps, wrote>>

\* lines 102-103: any other status raises SphinxTranslateException
RespondFail(w) ==
    /\ pc[w] = "request"
    /\ \E status \in Statuses : status # StatusOK
    /\ Raise(w, "request", "backend")
    /\ UNCHANGED <<fs, fs0, envVars, producerVars, q, unfinished, mainpc, job, fd, put,
                   taken, marked, requests, sleeps, wrote>>

\* a loop body that stores the text and leaves need_write as it was
ParseEntryNoFlag(w) ==
    /\ pc[w] = "parse"
    /\ LoopFrom(w, [cat_po[w] EXCEPT ![idx[w]].string =
                        parse_translated_entry(translate_result[w])],
                loaded[w], need_write[w], idx[w] + 1)
    /\ translate_result' = [translate_result EXCEPT ![w] = << >>]
    /\ UNCHANGED <<fs, fs0, envVars, producerVars, q, mainpc, exc, failed_step, fd, put,
                   taken, requests, sleeps, wrote>>

\* a loop body that sets need_write only when the parsed text is not empty
ParseEntryIfText(w) ==
    /\ pc[w] = "parse"
    /\ LoopFrom(w, [cat_po[w] EXCEPT ![idx[w]].string =
                        parse_translated_entry(translate_result[w])],
                loaded[w],
                need_write[w] \/ parse_translated_entry(translate_result[w]) # Empty,
                idx[w] + 1)
    /\ translate_result' = [translate_result EXCEPT ![w] = << >>]
    /\ UNCHANGED <<fs, fs0, envVars, producerVars, q, mainpc, exc, failed_step, fd, put,
                   taken, requests, sleeps, wrote>>

\* a loop body that sets need_write and does not store the text
ParseEntryDropsText(w) ==
    /\ pc[w] = "parse"
    /\ LoopFrom(w, cat_po[w], loaded[w], TRUE, idx[w] + 1)
    /\ translate_result' = [translate_result EXCEPT ![w] = << >>]
    /\ UNCHANGED <<fs, fs0, envVars, producerVars, q, mainpc, exc, failed_step, fd, put,
                   taken, requests, sleeps, wrote>>

\* lines 135-138: msg.string is set to the parsed text, need_write is set and
\* the loop goes on
ParseEntry(w) ==
    /\ pc[w] = "parse"
    /\ LoopFrom(w, [cat_po[w] EXCEPT ![idx[w]].string =
                        parse_translated_entry(translate_result[w])],
                loaded[w], TRUE, idx[w] + 1)
    /\ translate_result' = [translate_result EXCEPT ![w] = << >>]
    /\ UNCHANGED <<fs, fs0, envVars, producerVars, q, mainpc, exc, failed_step, fd, put,
                   taken, requests, sleeps, wrote>>

\* ------------------------------------------------------------------------
\* Saving: dump_po to the temporary sibling, then os.replace

po_file_tmp(w) == TmpOf(job[w].po_file)

\* lines 52-57 in an executor thread: io.open(filename, 'wb') creates the
\* temporary file or truncates the one that is there (its directory is the
\* catalog's, which exists)
DumpOpen(w) ==
    /\ pc[w] = "dump"
    /\ fs' = [fs EXCEPT ![po_file_tmp(w)] = Truncated]
    /\ fd' = [fd EXCEPT ![w] = po_file_tmp(w)]
    /\ wrote' = wrote \cup {<<job[w].k, "tmp">>}
    /\ pc' = [pc EXCEPT ![w] = "write"]
    /\ UNCHANGED <<fs0, envVars, producerVars, q, unfinished, mainpc, job, cat_po,
                   loaded, need_write, idx, translate_result, exc, failed_step, put,
                   taken, marked, requests, sleeps>>

\* line 57 raises: no temporary file was created by this call
DumpOpenFail(w) ==
    /\ pc[w] = "dump"
    /\ pc' = [pc EXCEPT ![w] = "except"]
    /\ exc' = [exc EXCEPT ![w] = "write"]
    /\ failed_step' = [failed_step EXCEPT ![w] = "open"]
    /\ UNCHANGED <<fs, fs0, envVars, producerVars, q, unfinished, mainpc, job, cat_po,
                   loaded, need_write, idx, translate_result, fd, put, taken, marked,
                   requests, sleeps, wrote>>

\* line 58 and the end of the with block: the serialized catalog reaches the
\* opened file, wherever that file is linked by now, and the file is closed
DumpWrite(w) ==
    /\ pc[w] = "write"
    /\ fs' = IF fd[w] = Unlinked THEN fs
             ELSE [fs EXCEPT ![fd[w]] = File(cat_po[w])]
    /\ fd' = [fd EXCEPT ![w] = NoFd]
    /\ pc' = [pc EXCEPT ![w] = "replace"]
    /\ UNCHANGED <<fs0, envVars, producerVars, q, unfinished, mainpc, job, cat_po,
                   loaded, need_write, idx, translate_result, exc, failed_step, put,
                   taken, marked, requests, sleeps, wrote>>

\* line 58 raises: the file is closed with what reached it
DumpWriteFail(w) ==
    /\ pc[w] = "write"
    /\ fd' = [fd EXCEPT ![w] = NoFd]
    /\ pc' = [pc EXCEPT ![w] = "except"]
    /\ exc' = [exc EXCEPT ![w] = "write"]
    /\ failed_step' = [failed_step EXCEPT ![w] = "write"]
    /\ UNCHANGED <<fs, fs0, envVars, producerVars, q, unfinished, mainpc, job, cat_po,
                   loaded, need_write, idx, translate_result, put, taken, marked,
                   requests, sleeps, wrote>>

\* what os.replace(src, dst) and os.remove(src) do to the files other threads
\* hold open: a file renamed stays open under its new name, a file whose name
\* is taken away stays open without a name
Relink(src, dst) ==
    [v \in Workers |->
        IF fd[v] = src THEN dst
        ELSE IF fd[v] = dst THEN Unlinked
        ELSE fd[v]]

\* lines 147 and 152: os.replace moves the temporary file onto the catalog,
\* q.task_done() is called and the task waits in q.get() again
Replace(w) ==
    /\ pc[w] = "replace"
    /\ Exists(po_file_tmp(w))
    /\ fs' = [fs EXCEPT ![job[w].po_file] = fs[po_file_tmp(w)],
                        ![po_file_tmp(w)] = Absent]
    /\ fd' = Relink(po_file_tmp(w), job[w].po_file)
    /\ wrote' = wrote \cup {<<job[w].k, "po">>}
    /\ unfinished' = unfinished - 1
    /\ marked' = marked \cup {job[w].k}
    /\ pc' = [pc EXCEPT ![w] = "get"]
    /\ job' = [job EXCEPT ![w] = NoJob]
    /\ cat_po' = [cat_po EXCEPT ![w] = << >>]
    /\ loaded' = [loaded EXCEPT ![w] = << >>]
    /\ need_write' = [need_write EXCEPT ![w] = FALSE]
    /\ UNCHANGED <<fs0, envVars, producerVars, q, mainpc, idx, translate_result, exc,
                   failed_step, put, taken, requests, sleeps>>

\* line 147 raises: the temporary file is gone, or the rename is refused
ReplaceFail(w) ==
    /\ pc[w] = "replace"
    /\ pc' = [pc EXCEPT ![w] = "except"]
    /\ exc' = [exc EXCEPT ![w] = "replace"]
    /\ failed_step' = [failed_step EXCEPT ![w] = "replace"]
    /\ UNCHANGED <<fs, fs0, envVars, producerVars, q, unfinished, mainpc, job, cat_po,
                   loaded, need_write, idx, translate_result, fd, put, taken, marked,
                   requests, sleeps, wrote>>

\* lines 148-150: os.remove(po_file_tmp), then the exception is raised again;
\* os.remove of a path that does not exist raises FileNotFoundError itself,
\* and that is the exception the task ends with
Except(w) ==
    /\ pc[w] = "except"
    /\ IF Exists(po_file_tmp(w))
       THEN /\ fs' = [fs EXCEPT ![po_file_tmp(w)] = Absent]
            /\ fd' = Relink(po_file_tmp(w), Unlinked)
            /\ exc' = exc
       ELSE /\ exc' = [exc EXCEPT ![w] = "remove"]
            /\ UNCHANGED <<fs, fd>>
    /\ pc' = [pc EXCEPT ![w] = "failed"]
    /\ cat_po' = [cat_po EXCEPT ![w] = << >>]
    /\ loaded' = [loaded EXCEPT ![w] = << >>]
    /\ need_write' = [need_write EXCEPT ![w] = FALSE]
    /\ UNCHANGED <<fs0, envVars, producerVars, q, unfinished, mainpc, job, idx,
                   translate_result, failed_step, put, taken, marked, requests, sleeps,
                   wrote>>

\* ------------------------------------------------------------------------
\* translate(), the main task

\* line 167: gather returns when the producer task is done
GatherDone ==
    /\ mainpc = "gather"
    /\ prodpc = "done"
    /\ mainpc' = "join"
    /\ UNCHANGED <<fs, fs0, envVars, producerVars, q, unfinished, workerVars, put,
                   taken, marked, requests, sleeps, wrote>>

\* c.cancel() for one task: a task that is done is left alone; CancelledError
\* is thrown into a task at its await, and inside the try block of lines
\* 144-147 the bare except of line 148 catches it
Cancelled(p) ==
    IF p = "failed" THEN "failed"
    ELSE IF p \in {"dump", "write", "replace"} THEN "except"
    ELSE "cancelled"

\* a translate() that cancels as soon as the producer is done, without q.join()
JoinCancelEarly ==
    /\ mainpc = "join"
    /\ pc' = [w \in Workers |-> Cancelled(pc[w])]
    /\ exc' = [w \in Workers |-> IF Cancelled(pc[w]) = "except" THEN "cancelled" ELSE exc[w]]
    /\ failed_step' = [w \in Workers |->
                          IF Cancelled(pc[w]) = "except" THEN "cancelled" ELSE failed_step[w]]
    /\ mainpc' = "returned"
    /\ UNCHANGED <<fs, fs0, envVars, producerVars, q, unfinished, job, cat_po, loaded,
                   need_write, idx, translate_result, fd, put, taken, marked, requests,
                   sleeps, wrote>>

\* lines 168-171: q.join() returns once every item put has been marked done,
\* and every consumer task is cancelled
JoinCancel ==
    /\ mainpc = "join"
    /\ unfinished = 0
    /\ pc' = [w \in Workers |-> Cancelled(pc[w])]
    /\ exc' = [w \in Workers |-> IF Cancelled(pc[w]) = "except" THEN "cancelled" ELSE exc[w]]
    /\ failed_step' = [w \in Workers |->
                          IF Cancelled(pc[w]) = "except" THEN "cancelled" ELSE failed_step[w]]
    /\ mainpc' = "returned"
    /\ UNCHANGED <<fs, fs0, envVars, producerVars, q, unfinished, job, cat_po, loaded,
                   need_write, idx, translate_result, fd, put, taken, marked, requests,
                   sleeps, wrote>>

\* lines 186-229: click rejects a command line without --target-language (a
\* required option); otherwise main() calls translate(), which creates the
\* queue and the tasks
MainStart ==
    /\ mainpc = "main"
    /\ IF languages = << >>
       THEN mainpc' = "usage" /\ prodpc' = prodpc
       ELSE mainpc' = "gather" /\ prodpc' = "walk"
    /\ UNCHANGED <<fs, fs0, envVars, li, listing, q, unfinished, workerVars, put, taken,
                   marked, requests, sleeps, wrote>>

\* line 110 with locale_dir = None: os.path.join raises TypeError, the
\* producer task ends with it
ProducerFail ==
    /\ prodpc = "walk"
    /\ root = NoneValue
    /\ prodpc' = "failed"
    /\ UNCHANGED <<fs, fs0, envVars, li, listing, q, unfinished, mainpc, workerVars,
                   put, taken, marked, requests, sleeps, wrote>>

\* line 167: gather raises the exception of the producer task; it leaves
\* translate() and asyncio.run(), which cancels the tasks that are left
GatherRaise ==
    /\ mainpc = "gather"
    /\ prodpc = "failed"
    /\ mainpc' = "raised"
    /\ pc' = [w \in Workers |-> Cancelled(pc[w])]
    /\ UNCHANGED <<fs, fs0, envVars, producerVars, q, unfinished, job, cat_po, loaded,
                   need_write, idx, translate_result, exc, failed_step, fd, put, taken,
                   marked, requests, sleeps, wrote>>

\* the command is run again with the same arguments on the file system the
\* run before it left behind
Rerun ==
    /\ mainpc = "returned"
    /\ run < MaxRuns
    /\ run' = run + 1
    /\ fs0' = fs
    /\ mainpc' = "main"
    /\ prodpc' = "none"
    /\ li' = 1
    /\ listing' = << >>
    /\ q' = << >>
    /\ unfinished' = 0
    /\ pc' = [w \in Workers |-> "get"]
    /\ put' = << >>
    /\ taken' = << >>
    /\ marked' = {}
    /\ requests' = {}
    /\ sleeps' = {}
    /\ wrote' = {}
    /\ UNCHANGED <<fs, backend, languages, root, delays, job, cat_po, loaded,
                   need_write, idx, translate_result, exc, failed_step, fd>>

\* ------------------------------------------------------------------------
\* Specifications

Producer == ProducerWalk \/ ProducerPut \/ ProducerSkip
Main == GatherDone \/ JoinCancel

\* the steps of a worker in which nothing raises
WorkerOK(w) ==
    \/ Get(w) \/ Load(w) \/ Sleep(w) \/ Respond(w) \/ ParseEntry(w)
    \/ DumpOpen(w) \/ DumpWrite(w) \/ Replace(w)

\* the steps in which an operation raises, and the handler of line 148
WorkerRaise(w) ==
    \/ LoadFail(w) \/ RespondFail(w) \/ DumpOpenFail(w) \/ DumpWriteFail(w)
    \/ ReplaceFail(w) \/ Except(w)

NextOK == (\E w \in Workers : WorkerOK(w)) \/ Producer \/ Main
Next == NextOK \/ \E w \in Workers : WorkerRaise(w)

Spec == Init /\ [][Next]_vars

\* runs in which no operation fails; the event loop runs a task that can run,
\* and every executor call returns
SpecLive == InitLive /\ [][NextOK]_vars /\ WF_vars(NextOK)

\* runs in which only load_po fails
NextRead == NextOK \/ \E w \in Workers : LoadFail(w)
SpecRead == InitRead /\ [][NextRead]_vars

\* runs in which nothing fails, one for every text of the backend
SpecParse == InitParse /\ [][NextOK]_vars

\* runs of the command from the command line on, repeated, in which no
\* operation of a worker fails
NextMain == NextOK \/ MainStart \/ ProducerFail \/ GatherRaise \/ Rerun
SpecMain == InitMain /\ [][NextMain]_vars

\* ------------------------------------------------------------------------
\* Properties

\* a worker between q.get() returning an item and q.task_done() for it
Active(w) == pc[w] \in {"load", "sleep", "request", "parse", "dump", "write", "replace",
                        "except"}

Items == 1..Len(put)

\* the catalog files of the initial file system
CatalogPaths == {p \in DOMAIN fs0 : fs0[p].kind = "catalog"}

\* the save of item k got as far as the rename
Saved(k) == <<k, "po">> \in wrote

\* C1: every item put on the queue is returned by q.get() at most once and is
\* held by at most one worker; an item still in the queue has not been taken;
\* when translate() has returned, every item put was taken exactly once.
C1_ConsumedOnce ==
    /\ \A k \in Items : taken[k] <= 1
    /\ \A i \in 1..Len(q) : taken[q[i].k] = 0
    /\ \A w, v \in Workers : w # v /\ job[w].k # 0 => job[w].k # job[v].k
    /\ mainpc = "returned" => \A k \in Items : taken[k] = 1

\* translate() has returned after two items were put, taken and marked done
C1_Witness == mainpc = "returned" /\ Len(put) >= 2 /\ marked = Items

\* C2: no two workers are between load and task_done for the same catalog file
\* at the same time.
C2_ExclusiveFile ==
    \A w, v \in Workers :
        w # v /\ Active(w) /\ Active(v) => job[w].po_file # job[v].po_file

\* C3: the path of a catalog always holds a complete catalog, and holds the
\* original one unless a save of that path got as far as the rename.
C3_AtomicSave ==
    \A p \in CatalogPaths :
        /\ fs[p].kind = "catalog"
        /\ fs[p] # fs0[p] => \E k \in Items : put[k].po_file = p /\ Saved(k)

\* the error of each step of the save
ErrorOf(step) == IF step = "replace" THEN "replace" ELSE "write"

\* C4: when dump_po or os.replace failed, the task ends with the error of that
\* step, the temporary file does not exist and the catalog is the original.
C4_CleanupOnFailure ==
    \A w \in Workers :
        pc[w] = "failed" /\ failed_step[w] \in {"open", "write", "replace"} =>
            /\ ~Exists(po_file_tmp(w))
            /\ exc[w] = ErrorOf(failed_step[w])
            /\ fs[job[w].po_file] = fs0[job[w].po_file]

\* C5: an entry that was loaded with an empty id or with a translated string
\* keeps its translated string, and no request is sent for it.
C5_SkipPolicy ==
    \A w \in Workers : \A i \in 1..Len(loaded[w]) :
        loaded[w][i].id = Empty \/ loaded[w][i].string # Empty =>
            /\ cat_po[w][i] = loaded[w][i]
            /\ <<job[w].k, i>> \notin requests

\* a catalog with an already translated entry and a newly translated one is
\* about to be moved onto its path
C5_Witness ==
    \E w \in Workers :
        /\ pc[w] = "replace"
        /\ \E i, j \in 1..Len(loaded[w]) :
              /\ loaded[w][i].string = StrOld
              /\ loaded[w][j].string = Empty /\ cat_po[w][j].string # Empty

\* C6 as claimed: a catalog is written only when the translated string of at
\* least one entry differs from the loaded one.
C6_WriteOnlyIfChanged ==
    \A w \in Workers : pc[w] \in {"dump", "write", "replace"} => cat_po[w] # loaded[w]

\* C6 as amended: a catalog is written only when a backend request was sent
\* for at least one entry that was loaded with an id and without a translated
\* string; for an item without such a request nothing is written.
C6_WriteOnlyIfTranslated ==
    /\ \A w \in Workers :
          pc[w] \in {"dump", "write", "replace"} =>
              \E i \in 1..Len(loaded[w]) :
                  /\ loaded[w][i].id # Empty /\ loaded[w][i].string = Empty
                  /\ <<job[w].k, i>> \in requests
    /\ \A x \in wrote : \E r \in requests : r[1] = x[1]

\* a catalog was saved and marked done although every translated string in it
\* is the loaded one
C6_Witness ==
    \E k \in marked : Saved(k) /\ fs[put[k].po_file] = fs0[put[k].po_file]

\* C7: translate() cancels the workers only when the producer is done, the
\* queue is empty, every item put has been marked done and every worker waits
\* in q.get(): no worker is in a request or a save.
C7_CancelWhenIdle ==
    [][mainpc # "returned" /\ mainpc' = "returned" =>
          /\ prodpc = "done"
          /\ q = << >>
          /\ marked = Items
          /\ \A w \in Workers : pc[w] = "get"]_vars

\* translate() has returned after a catalog was saved
C7_Witness == mainpc = "returned" /\ \E k \in Items : Saved(k)

\* C9: once a worker has failed, the run does not come to a halt unless
\* translate() has raised.
C9_FailureTerminates ==
    (\E w \in Workers : pc[w] = "failed") => (ENABLED Next \/ mainpc = "raised")

\* the work left, an upper bound of the number of steps to the end of a run in
\* which nothing fails: per item at most ItemWork steps, for the producer one
\* step per file listed and per language
CatBound == IF MaxEntries > Len(LiveCatalog) THEN MaxEntries ELSE Len(LiveCatalog)
ItemWork == 5 + 3 * CatBound
EntriesLeft(w) == 3 * (Len(cat_po[w]) + 1 - idx[w])
WorkerLeft(w) ==
    CASE pc[w] = "load" -> ItemWork - 1
      [] pc[w] = "sleep" -> EntriesLeft(w) + 3
      [] pc[w] = "request" -> EntriesLeft(w) + 2
      [] pc[w] = "parse" -> EntriesLeft(w) + 1
      [] pc[w] = "dump" -> 3
      [] pc[w] = "write" -> 2
      [] pc[w] = "replace" -> 1
      [] OTHER -> 0
RECURSIVE WorkersLeft(_)
WorkersLeft(n) == IF n = 0 THEN 0 ELSE WorkerLeft(n) + WorkersLeft(n - 1)
ProducerLeft ==
    CASE prodpc = "walk" -> (Len(languages) + 1 - li) * (Len(PathOrder) + 1)
      [] prodpc = "iter" -> (Len(languages) - li) * (Len(PathOrder) + 1) + Len(listing)
      [] OTHER -> 0
MainLeft == IF mainpc = "gather" THEN 2 ELSE IF mainpc = "join" THEN 1 ELSE 0
WorkLeft ==
    ProducerLeft * (ItemWork + 1) + Len(q) * ItemWork + WorkersLeft(NumWorkers) + MainLeft

\* translate() has returned and every catalog file was put, saved and marked
Completed ==
    /\ mainpc = "returned"
    /\ \A p \in CatalogPaths : \E k \in marked : put[k].po_file = p /\ Saved(k)

\* C8: with LiveFiles > 4 catalogs, each with an untranslated entry, and a
\* backend that always answers, the run completes with every file saved: every
\* step lessens the work left, the run halts only when translate() has
\* returned with every file saved, and an item is marked done only when saved.
C8_CompletesAllSaved ==
    /\ [][WorkLeft' < WorkLeft]_vars
    /\ [](ENABLED NextOK \/ Completed)
    /\ [](\A k \in marked : Saved(k))

\* translate() has returned with more files saved than there are workers
C8_Witness == Completed /\ Cardinality(CatalogPaths) > NumWorkers

\* the catalog of item k had an entry to translate when the run started
Dirty(k) ==
    \E i \in 1..Len(fs0[put[k].po_file].cat) :
        LET msg == fs0[put[k].po_file].cat[i]
        IN  msg.id # Empty /\ msg.string = Empty

\* C10: when the run has come to a halt, every item whose load did not fail
\* was loaded and marked done, and was saved if its catalog was dirty.
C10_ReadErrorIsolated ==
    ENABLED NextRead \/
        \A k \in Items :
            (\A w \in Workers : ~(pc[w] = "failed" /\ job[w].k = k)) =>
                k \in marked /\ (Dirty(k) => Saved(k))

\* the requests sent for item k
RequestsOf(k) == {r \in requests : r[1] = k}

\* the task of worker w ended in a failed backend call
BackendFailed(w) == pc[w] = "failed" /\ failed_step[w] = "request"

\* C11: a request in flight ends in its text being parsed or in the end of the
\* task, never in another sleep or request; once a backend call has failed for
\* an entry of a catalog, the task stays ended with its item, no further
\* request is sent for that item, nothing was or is written for it, and the
\* catalog file holds what it held when the run started.
C11_BackendAbort ==
    /\ [][\A w \in Workers :
            /\ pc[w] = "request" => pc'[w] \in {"request", "parse", "failed"}
            /\ pc[w] = "request" /\ pc'[w] = "failed" => fs' = fs
            /\ BackendFailed(w) =>
                  /\ pc'[w] = "failed" /\ job'[w] = job[w]
                  /\ {r \in requests' : r[1] = job[w].k} = RequestsOf(job[w].k)]_vars
    /\ [](\A w \in Workers :
            BackendFailed(w) =>
                /\ \A x \in wrote : x[1] # job[w].k
                /\ fs[job[w].po_file] = fs0[job[w].po_file])

\* p names a file that existed when the run started, at any depth under the
\* LC_MESSAGES directory of lang, and its name ends in ".po" after at least
\* one other character
IsPoFileOf(lang, p) ==
    /\ p \in DOMAIN fs0 /\ fs0[p].kind # "absent"
    /\ root # NoneValue
    /\ IsPrefix(root \o <<Sep, lang, Sep, "LC_MESSAGES", Sep>>, p)
    /\ Len(p) >= 3
    /\ p[Len(p)] = "po" /\ p[Len(p) - 1] = Dot /\ p[Len(p) - 2] # Sep

\* C12: every item put names a given language and a ".po" file under the
\* directory of that language; when get_po_files is done, every such file of
\* every given language was put; get_po_files fails for no language, whether
\* its directory exists or not, when there is a root directory.
C12_DiscoveryExact ==
    /\ \A k \in Items :
          /\ put[k].lang \in Range(languages)
          /\ IsPoFileOf(put[k].lang, put[k].po_file)
    /\ prodpc = "done" =>
          \A lang \in Range(languages) : \A p \in DOMAIN fs0 :
              IsPoFileOf(lang, p) =>
                  \E k \in Items : put[k] = [lang |-> lang, po_file |-> p]
    /\ prodpc = "failed" => root = NoneValue

\* discovery is done for a language with two catalogs, one of them in a
\* subdirectory, and a language without a directory
C12_Witness ==
    /\ prodpc = "done" /\ run = 1
    /\ languages = <<"de", "xx">>
    /\ {put[k].po_file : k \in Items} = {PoPath("de", "a"), SubPath("de", "c")}

\* the run was started without a language, without a root directory, or with
\* a root directory that does not exist
ConfigError ==
    \/ languages = << >>
    \/ root = NoneValue
    \/ ~\E p \in DOMAIN fs : Exists(p) /\ IsPrefix(root \o <<Sep>>, p)

\* C13: a run with a configuration error puts no item, sends no request,
\* writes no file and does not end as a run that succeeded.
C13_ConfigFatal ==
    ConfigError =>
        /\ put = << >> /\ requests = {} /\ wrote = {}
        /\ mainpc # "returned"

\* the request of worker w is in flight: sent and not yet answered
InFlight(w) == pc[w] = "request"

\* the entry the loop of worker w stands at; past the last one after the loop
Position(w) ==
    IF pc[w] \in {"sleep", "request", "parse"} THEN idx[w] ELSE Len(loaded[w]) + 1

\* C14: a worker has sent requests exactly for the translatable entries before
\* its position and has stored the text of each before the next was sent; no
\* two requests are in flight for the same catalog file, and at most 4 are in
\* flight in all.
C14_SequentialRequests ==
    /\ \A w \in Workers : \A i \in 1..Len(loaded[w]) :
          /\ <<job[w].k, i>> \in requests =>
                /\ ~Skips(loaded[w][i])
                /\ i <= Position(w)
                /\ i = Position(w) => pc[w] \in {"request", "parse"}
                /\ \A j \in 1..(i-1) : ~Skips(loaded[w][j]) => <<job[w].k, j>> \in requests
          /\ InFlight(w) /\ i < idx[w] /\ ~Skips(loaded[w][i]) =>
                cat_po[w][i].string \in {parse_translated_entry(doc) : doc \in backend}
    /\ \A w, v \in Workers :
          w # v /\ InFlight(w) /\ InFlight(v) => job[w].po_file # job[v].po_file
    /\ Cardinality({w \in Workers : InFlight(w)}) <= NumWorkers

\* C15: a document without the expected element is parsed to the empty string;
\* the step that stores it leaves the entry with an empty translated string
\* and sets need_write, so the loop goes on to the next entry or to dump_po;
\* and a catalog for which a request was sent is marked done only after its
\* save got as far as the rename.
C15_EmptyStillWritten ==
    /\ [][\A w \in Workers :
            pc[w] = "parse" /\ translate_result[w] = << >> /\ pc'[w] # "parse" =>
                /\ parse_translated_entry(translate_result[w]) = Empty
                /\ cat_po'[w][idx[w]].string = Empty
                /\ need_write'[w]
                /\ pc'[w] \in {"sleep", "dump"}]_vars
    /\ [](\A k \in marked : RequestsOf(k) # {} => Saved(k))

\* translate() has returned after a catalog for which requests were sent was
\* saved with the content it had before
C15_Witness ==
    /\ mainpc = "returned"
    /\ \E k \in marked :
          /\ RequestsOf(k) # {} /\ Saved(k)
          /\ fs[put[k].po_file] = fs0[put[k].po_file]

\* s records a sleep of a whole number of milliseconds from 100 to 1000 that
\* ended before the request for entry i of item k
SleptFor(s, k, i) == s[1] = k /\ s[2] = i /\ s[3] >= MinDelay /\ s[3] <= MaxDelay

\* C16: a request is sent only in the step of a worker that ends a sleep of 100
\* to 1000 milliseconds for the same entry, and every request in flight has
\* such a sleep behind it.
C16_SleepBeforeRequest ==
    /\ [][\A r \in requests' \ requests :
            /\ \E w \in Workers :
                  pc[w] = "sleep" /\ pc'[w] = "request" /\ r = <<job[w].k, idx[w]>>
            /\ \E s \in sleeps' \ sleeps : SleptFor(s, r[1], r[2])]_vars
    /\ [](\A w \in Workers :
            InFlight(w) => \E s \in sleeps : SleptFor(s, job[w].k, idx[w]))
    /\ [](\A s \in sleeps : SleptFor(s, s[1], s[2]) /\ <<s[1], s[2]>> \in requests)

\* requests were sent after the shortest and after the longest sleep
C16_Witness ==
    \E s, t \in sleeps :
        /\ s[3] = MinDelay /\ t[3] = MaxDelay
        /\ <<s[1], s[2]>> \in requests /\ <<t[1], t[2]>> \in requests

\* the tokens the correction sequence looks for, as the claim lists them
C17_Tokens ==
    { <<" ", "+", " ">>, <<"C", " ", "#">>, <<"C", " ", "+", "+">>, <<"+", "-", "+">>,
      <<" ", ":", ":", " ">>, <<"!", " ", "=">>, <<">", " ", "=">>, <<" ", "+">>,
      <<" ", "/", " ">>, <<".", ".", "/", " ">>, <<" ", "/", "/", " ">>,
      <<":", " ", "d", "o", "c", ":", " ", BackTick>>,
      <<":", " ", "r", "e", "f", ":", " ", BackTick>>, <<BackTick, " ", "_">> }

Contains(text, token) ==
    \E i \in 1..Len(text) :
        i + Len(token) - 1 <= Len(text) /\ SubSeq(text, i, i + Len(token) - 1) = token

CleanText(text) == \A token \in C17_Tokens : ~Contains(text, token)

\* C17: when the text the backend answers with holds none of the tokens, the
\* string parse_translated_entry returned for the entry, which the worker
\* holds from the end of the loop on, is that text.
C17_CleanTextUnchanged ==
    \A doc \in backend : \A w \in Workers :
        /\ pc[w] \in {"dump", "write", "replace"}
        /\ CleanText(doc[Len(doc)])
        => cat_po[w][1].string = doc[Len(doc)]

\* a text of characters of the tokens that holds none of them was parsed
C17_Witness ==
    /\ backend = {<< <<"C", "+", "+", "/">> >>}
    /\ \E w \in Workers : pc[w] = "replace" /\ cat_po[w][1].string = <<"C", "+", "+", "/">>

\* the backend of this run answers with a translation for every request: no
\* document is parsed to the empty string
BackendTranslates == \A doc \in backend : parse_translated_entry(doc) # Empty

\* C18: in a run that follows a run that returned, with a backend that gave a
\* translation for every entry, no request is sent, no sleep is made, no file
\* is written, the file system stays as the first run left it, and no worker
\* is past the load of a catalog with need_write set or an entry to translate.
C18_RerunIdempotent ==
    run > 1 /\ BackendTranslates =>
        /\ requests = {} /\ sleeps = {} /\ wrote = {}
        /\ fs = fs0
        /\ \A w \in Workers : ~need_write[w] /\ pc[w] \in {"get", "load", "cancelled"}

\* the second run has returned after both catalogs were loaded again, on the
\* file system in which the first run stored a translation
C18_Witness ==
    /\ run = 2 /\ mainpc = "returned" /\ BackendTranslates
    /\ Len(put) = 2 /\ marked = Items
    /\ fs[PoPath("de", "a")] # MainTree[PoPath("de", "a")]

\* how often lang stands in the target languages, and how often p was put
Occurrences(lang) == Cardinality({i \in 1..Len(languages) : languages[i] = lang})
TimesPut(p) == Cardinality({k \in Items : put[k].po_file = p})

NoRepeatedLanguage ==
    \A i, j \in 1..Len(languages) : i # j => languages[i] # languages[j]

IsTmpPath(p) == Len(p) >= 2 /\ SubSeq(p, Len(p) - 1, Len(p)) = TmpSuffix

\* C20: no item that was put, is in the queue or is held by a worker names a
\* temporary file.
C20_TmpNeverWork ==
    /\ \A k \in Items : ~IsTmpPath(put[k].po_file)
    /\ \A i \in 1..Len(q) : ~IsTmpPath(q[i].po_file)
    /\ \A w \in Workers : job[w] # NoJob => ~IsTmpPath(job[w].po_file)

\* the walk of get_po_files has listed, and stands at, the temporary file
\* that a worker wrote and has not yet renamed; the tree also holds the
\* temporary file an earlier run left behind
C20_Witness ==
    /\ prodpc = "iter"
    /\ \E w \in Workers :
          /\ pc[w] = "replace" /\ Exists(po_file_tmp(w))
          /\ PathJoin(Head(listing)[1], Head(listing)[2]) = po_file_tmp(w)
    /\ Exists(TmpOf(PoPath("de", "b")))

====
